---- MODULE Spec2Model ----
(***************************************************************************)
(* A model of pySync (src/sync.py): the one-way synchronisation pass       *)
(* sync(src, dest) and the loop that repeats it.                           *)
(*                                                                         *)
(* The two directory trees are functions from relative paths to entries.   *)
(* A relative path is a sequence of names; <<>> is the root itself.        *)
(* One action is one step of the code: one os.walk node listing, or the    *)
(* handling of one entry of the inner for loops.  An uncaught exception    *)
(* ends the process: pc = "crashed".                                       *)
(***************************************************************************)
EXTENDS Integers, Sequences, FiniteSets, TLC

\* ------------------------------------------------------------- bounds
MaxDepth == 2
MaxEntries == 2
MaxMtime == 2
MaxContent == 2
MaxArgs == 5

Names == {"a", "b"}

\* The sync interval when -i is not given (line 43), and the intervals the
\* model runs with: int() takes a negative number too.
DefaultInterval == 10
Intervals == {-1, DefaultInterval}

\* src, dst        the source and the destination tree on disk
\* pc              where the program is: "start", in the source walk ("A_walk",
\*                 "A_body"), in the destination walk ("B_walk", "B_body"), at
\*                 the end of sync() ("done"), in time.sleep ("sleep"),
\*                 ended by an exception ("crashed") or by a signal ("killed"),
\*                 and in the specification that starts before parse_args:
\*                 about to parse ("parse"), about to call setup_logger
\*                 ("setup"), ended by sys.exit(1) ("exit1")
\* stack           the directories os.walk has still to list, next one first
\* root, dirs, files   the node os.walk gave last, and what the loop body has
\*                 still to handle of it
\* events          what the current pass has logged with logger.info
\* argv            sys.argv, the argument vector of the process
\* sync_interval, debug, log_file_path   what parse_args returned
\* cancel          the process was sent a signal that ends it (SIGINT, SIGTERM)
\* History, for stating properties:
\* dst0            the destination tree as it was when the current pass began
\* quiet           a pass has run to its end and nothing was changed since
\* mut             the change made to the source during the last wait
VARIABLES src, dst, pc, stack, root, dirs, files, events, dst0, quiet, mut, sync_interval,
          cancel, argv, debug, log_file_path

vars == <<src, dst, pc, stack, root, dirs, files, events, dst0, quiet, mut, sync_interval, cancel, argv, debug, log_file_path>>

\* ------------------------------------------------------------- the file system
PathsOfLen(n) == [1..n -> Names]
Paths == UNION {PathsOfLen(n) : n \in 0..(MaxDepth + 1)}
InitPaths == UNION {PathsOfLen(n) : n \in 1..MaxDepth}

Mtimes == 1..MaxMtime
Contents == 1..MaxContent

\* An entry of a tree.  A directory's modification time is kept in the
\* destination only (0 elsewhere): the code reads none in the source, and none
\* of either root.
NoEntry == [kind |-> "none", mtime |-> 0, content |-> 0]
DirEntry(m) == [kind |-> "dir", mtime |-> m, content |-> 0]
FileEntry(m, c) == [kind |-> "file", mtime |-> m, content |-> c]
FileEntries == {FileEntry(m, c) : m \in Mtimes, c \in Contents}

Parent(p) == SubSeq(p, 1, Len(p) - 1)
Last(p) == p[Len(p)]
IsPrefix(p, q) == Len(p) <= Len(q) /\ SubSeq(q, 1, Len(p)) = p
IsStrictPrefix(p, q) == Len(p) < Len(q) /\ IsPrefix(p, q)

\* os.path.exists / isdir / isfile on a path of a tree
Exists(tree, p) == tree[p].kind # "none"
IsDir(tree, p) == tree[p].kind = "dir"
IsFile(tree, p) == tree[p].kind = "file"

\* The entries of a tree (the root is not an entry).
EntriesOf(tree) == {p \in Paths : p # <<>> /\ Exists(tree, p)}

\* A tree is well formed when every entry's parent is a directory.
WellFormed(tree) ==
    \A p \in Paths : (p # <<>> /\ Exists(tree, p)) => IsDir(tree, Parent(p))

EmptyTree == [p \in Paths |-> IF p = <<>> THEN DirEntry(0) ELSE NoEntry]
MissingTree == [p \in Paths |-> NoEntry]

\* The trees the model starts from: at most MaxEntries entries, none deeper
\* than MaxDepth, every entry's parent a directory.
Shapes ==
    {S \in SUBSET InitPaths :
        /\ Cardinality(S) <= MaxEntries
        /\ \A p \in S : Len(p) > 1 => Parent(p) \in S}
Fillings(S, dirMtimes) ==
    {f \in [S -> FileEntries \cup {DirEntry(m) : m \in dirMtimes}] :
        \A p \in S : (\E q \in S : IsStrictPrefix(p, q)) => f[p].kind = "dir"}
TreeOf(S, f) ==
    [p \in Paths |-> IF p = <<>> THEN DirEntry(0) ELSE IF p \in S THEN f[p] ELSE NoEntry]
TreesWith(dirMtimes) ==
    {MissingTree} \cup UNION {{TreeOf(S, f) : f \in Fillings(S, dirMtimes)} : S \in Shapes}
SrcTrees == TreesWith({0})
DstTrees == TreesWith(Mtimes)

\* os.scandir: the names under a directory, by kind.
ChildDirs(tree, p) ==
    IF Len(p) > MaxDepth THEN {} ELSE {n \in Names : IsDir(tree, Append(p, n))}
ChildFiles(tree, p) ==
    IF Len(p) > MaxDepth THEN {} ELSE {n \in Names : IsFile(tree, Append(p, n))}

\* The orders in which a listing may give a set of names.
Orders(S) ==
    {s \in [1..Cardinality(S) -> S] : \A i, j \in 1..Cardinality(S) : i # j => s[i] # s[j]}

RECURSIVE JoinAll(_, _)
JoinAll(p, ns) == IF ns = <<>> THEN <<>> ELSE <<Append(p, Head(ns))>> \o JoinAll(p, Tail(ns))


\* ------------------------------------------------------------- file operations
\* Each operation gives [ok, tree]: ok is FALSE when the call raises OSError,
\* and then the tree is left as it was.  `now` is the clock's reading, which the
\* operating system writes to a directory when an entry is added to it or
\* removed from it.

Stamp(tree, q, now) ==
    IF q # <<>> /\ IsDir(tree, q) THEN [tree EXCEPT ![q] = DirEntry(now)] ELSE tree

\* A makedirs that is given another path than the destination's and leaves the
\* destination as it is.
MakeDirsElsewhere(tree, p, now) == [ok |-> TRUE, tree |-> tree]

\* os.makedirs(p, exist_ok=True): p and every missing ancestor become
\* directories; it raises when p or an ancestor of p is a file.
MakeDirs(tree, p, now) ==
    IF \E q \in Paths : IsPrefix(q, p) /\ IsFile(tree, q)
    THEN [ok |-> FALSE, tree |-> tree]
    ELSE [ok |-> TRUE,
          tree |-> [q \in Paths |->
                      IF IsPrefix(q, p) /\ ~Exists(tree, q)
                      THEN DirEntry(IF q = <<>> THEN 0 ELSE now)
                      ELSE IF q # <<>> /\ IsStrictPrefix(q, p) /\ ~Exists(tree, SubSeq(p, 1, Len(q) + 1))
                      THEN DirEntry(now)
                      ELSE tree[q]]]

\* shutil.copy2(src_path, dst_path): bytes and modification time of the source
\* file are written to dst_path, or to dst_path/basename(src_path) when dst_path
\* is a directory.  It raises when the directory that is to hold the file does
\* not exist or the place of the file is taken by a directory.
Copy2Target(tree, p) == IF IsDir(tree, p) THEN Append(p, Last(p)) ELSE p
\* shutil.copyfile in place of copy2: the bytes are copied, the modification
\* time is that of the write.
CopyFileOnly(entry, tree, p, now) ==
    LET t == Copy2Target(tree, p) IN
    IF entry.kind # "file" \/ ~IsDir(tree, Parent(t)) \/ IsDir(tree, t)
    THEN [ok |-> FALSE, tree |-> tree]
    ELSE [ok |-> TRUE,
          tree |-> [IF Exists(tree, t) THEN tree ELSE Stamp(tree, Parent(t), now)
                       EXCEPT ![t] = FileEntry(now, entry.content)]]

Copy2(entry, tree, p, now) ==
    LET t == Copy2Target(tree, p) IN
    IF entry.kind # "file" \/ ~IsDir(tree, Parent(t)) \/ IsDir(tree, t)
    THEN [ok |-> FALSE, tree |-> tree]
    ELSE [ok |-> TRUE,
          tree |-> [IF Exists(tree, t) THEN tree ELSE Stamp(tree, Parent(t), now)
                       EXCEPT ![t] = entry]]

\* os.remove(p): raises unless p is a file.
Remove(tree, p, now) ==
    IF ~IsFile(tree, p)
    THEN [ok |-> FALSE, tree |-> tree]
    ELSE [ok |-> TRUE, tree |-> [Stamp(tree, Parent(p), now) EXCEPT ![p] = NoEntry]]

\* os.rmdir in place of shutil.rmtree: raises unless p is an empty directory.
RmDir(tree, p, now) ==
    IF ~IsDir(tree, p) \/ (\E q \in Paths : IsStrictPrefix(p, q) /\ Exists(tree, q))
    THEN [ok |-> FALSE, tree |-> tree]
    ELSE [ok |-> TRUE, tree |-> [Stamp(tree, Parent(p), now) EXCEPT ![p] = NoEntry]]

\* shutil.rmtree(p): p and everything below it are removed; raises unless p is
\* a directory.
RmTree(tree, p, now) ==
    IF ~IsDir(tree, p)
    THEN [ok |-> FALSE, tree |-> tree]
    ELSE [ok |-> TRUE,
          tree |-> [q \in Paths |->
                      IF IsPrefix(p, q) THEN NoEntry ELSE Stamp(tree, Parent(p), now)[q]]]

\* os.path.getmtime(p)
GetMtime(tree, p) == tree[p].mtime

\* A staleness test that takes a tie for stale.
SourceIsNewerOrSame(sm, dm) == sm >= dm

\* A staleness test that takes any difference for stale.
SourceDiffers(sm, dm) == sm # dm

\* The staleness test of line 131.
SourceIsNewer(sm, dm) == sm > dm

\* A presence test that asks for a file (os.path.isfile).
HasSourceFile(p) == IsFile(src, p)

\* The presence test of lines 142 and 151.
HasSource(p) == Exists(src, p)

\* ------------------------------------------------------------- events (logger.info)
Event(k, t, p) == [kind |-> k, type |-> t, path |-> p]

NoMut == [op |-> "none", path |-> <<>>]

\* ------------------------------------------------------------- parse_args
\* The words an argument vector is made of: two words that are no option and no
\* number, the three options, and two numerals.
Tokens == {"src", "dst", "-i", "-l", "-d", "-1", "5"}

RECURSIVE SeqsOfLen(_, _)
SeqsOfLen(S, n) ==
    IF n = 0 THEN {<<>>}
    ELSE {Append(s, t) : s \in SeqsOfLen(S, n - 1), t \in S}

\* sys.argv: the script name, then up to MaxArgs words.
Argvs == {<<"sync.py">> \o s : s \in UNION {SeqsOfLen(Tokens, n) : n \in 0..MaxArgs}}

\* int(s) of line 55: the value of a decimal numeral with an optional sign;
\* ValueError (ok = FALSE) for every other word.
IntOf(s) ==
    CASE s = "5" -> [ok |-> TRUE, value |-> 5]
      [] s = "-1" -> [ok |-> TRUE, value |-> -1]
      [] OTHER -> [ok |-> FALSE, value |-> 0]

\* What parse_args returns, or ok = FALSE where it calls sys.exit(1).
Parsed(i, l, d) == [ok |-> TRUE, sync_interval |-> i, log_file_path |-> l, debug |-> d]
Exit1 == [ok |-> FALSE, sync_interval |-> 0, log_file_path |-> "", debug |-> FALSE]

\* The log file when -l is not given (line 44): sync_log.log in the working
\* directory, which is neither of the two trees.
DefaultLogFile == "sync_log.log"

\* The while loop of lines 50-79 from index i on (sys.argv[i - 1] in Python's
\* counting), with the interval, the log file and the debug flag set so far.
RECURSIVE ParseOptions(_, _, _, _, _)
ParseOptions(av, i, interval, log, dbg) ==
    IF i > Len(av) THEN Parsed(interval, log, dbg)
    ELSE CASE av[i] = "-i" ->
                IF i + 1 <= Len(av)
                THEN IF IntOf(av[i + 1]).ok
                     THEN ParseOptions(av, i + 2, IntOf(av[i + 1]).value, log, dbg)
                     ELSE Exit1
                ELSE Exit1
           [] av[i] = "-l" ->
                IF i + 1 <= Len(av)
                THEN ParseOptions(av, i + 2, interval, av[i + 1], dbg)
                ELSE Exit1
           [] av[i] = "-d" -> ParseOptions(av, i + 1, interval, log, TRUE)
           [] OTHER -> Exit1

\* parse_args (lines 24-81): at least two words after the script name, then the
\* options.
parse_args(av) ==
    IF Len(av) < 3 THEN Exit1
    ELSE ParseOptions(av, 4, DefaultInterval, DefaultLogFile, FALSE)

\* The argument vectors the runs of the synchronisation start from: no option,
\* and a negative interval.
StartArgvs == {<<"sync.py", "src", "dst">>, <<"sync.py", "src", "dst", "-i", "-1">>}

\* ------------------------------------------------------------- the program
Init ==
    /\ src \in SrcTrees
    /\ dst \in DstTrees
    /\ pc = "start"
    /\ stack = <<>>
    /\ root = <<>>
    /\ dirs = <<>>
    /\ files = <<>>
    /\ events = <<>>
    /\ dst0 = dst
    /\ quiet = FALSE
    /\ mut = NoMut
    /\ sync_interval \in Intervals
    /\ cancel = FALSE
    /\ argv \in StartArgvs
    /\ sync_interval = parse_args(argv).sync_interval
    /\ debug = parse_args(argv).debug
    /\ log_file_path = parse_args(argv).log_file_path

\* sync() is entered: os.walk(src) is created.
BeginPass ==
    /\ pc' = "A_walk"
    /\ stack' = << <<>> >>
    /\ root' = <<>>
    /\ events' = <<>>
    /\ dst0' = dst
    /\ UNCHANGED <<src, dst, dirs, files, quiet, mut, sync_interval, cancel, argv, debug, log_file_path>>

\* The first iteration of while True.
FirstPass == pc = "start" /\ BeginPass

\* time.sleep returns and the loop calls sync again.
NextPass == pc = "sleep" /\ BeginPass

\* A walk that lists the directory on top of the stack and does not go into its
\* subdirectories.
WalkNodeFlat(tree, bodyPc, walkPc) ==
    /\ stack # <<>>
    /\ LET top == Head(stack) IN
       IF IsDir(tree, top)
       THEN \E ds \in Orders(ChildDirs(tree, top)), fs \in Orders(ChildFiles(tree, top)) :
               /\ root' = top
               /\ dirs' = ds
               /\ files' = fs
               /\ stack' = Tail(stack)
               /\ pc' = IF ds = <<>> /\ fs = <<>> THEN walkPc ELSE bodyPc
       ELSE /\ stack' = Tail(stack)
            /\ UNCHANGED <<root, dirs, files, pc>>

\* One node of an os.walk over `tree`: the directory on top of the stack is
\* listed, its subdirectories are stacked to be walked after it, and the loop
\* body gets (root, dirs, files).  A path that cannot be listed is skipped
\* (os.walk's onerror is None).
WalkNode(tree, bodyPc, walkPc) ==
    /\ stack # <<>>
    /\ LET top == Head(stack) IN
       IF IsDir(tree, top)
       THEN \E ds \in Orders(ChildDirs(tree, top)), fs \in Orders(ChildFiles(tree, top)) :
               /\ root' = top
               /\ dirs' = ds
               /\ files' = fs
               /\ stack' = JoinAll(top, ds) \o Tail(stack)
               /\ pc' = IF ds = <<>> /\ fs = <<>> THEN walkPc ELSE bodyPc
       ELSE /\ stack' = Tail(stack)
            /\ UNCHANGED <<root, dirs, files, pc>>

\* An uncaught exception leaves sync() and the loop: the process ends.
Crash ==
    /\ pc' = "crashed"
    /\ UNCHANGED <<src, dst, stack, root, dirs, files, events, dst0, quiet, mut, sync_interval, cancel, argv, debug, log_file_path>>

\* for root, dirs, files in os.walk(src)
WalkSrc ==
    /\ pc = "A_walk"
    /\ WalkNode(src, "A_body", "A_walk")
    /\ UNCHANGED <<src, dst, events, dst0, quiet, mut, sync_interval, cancel, argv, debug, log_file_path>>

\* for dir in dirs (lines 113-120)
SyncDir ==
    /\ pc = "A_body"
    /\ dirs # <<>>
    /\ \E now \in Mtimes :
       LET p == Append(root, Head(dirs))
           r == MakeDirs(dst, p, now)
       IN  IF ~Exists(dst, p)
           THEN IF r.ok
                THEN /\ dst' = r.tree
                     /\ events' = Append(events, Event("created", "dir", p))
                     /\ dirs' = Tail(dirs)
                     /\ pc' = IF Tail(dirs) = <<>> /\ files = <<>> THEN "A_walk" ELSE "A_body"
                     /\ UNCHANGED <<src, stack, root, files, dst0, quiet, mut, sync_interval, cancel, argv, debug, log_file_path>>
                ELSE Crash
           ELSE /\ dirs' = Tail(dirs)
                /\ pc' = IF Tail(dirs) = <<>> /\ files = <<>> THEN "A_walk" ELSE "A_body"
                /\ UNCHANGED <<src, dst, events, stack, root, files, dst0, quiet, mut, sync_interval, cancel, argv, debug, log_file_path>>

\* A file loop that moves the source file to the destination instead of copying
\* it.
SyncFileMoving ==
    /\ pc = "A_body"
    /\ dirs = <<>>
    /\ files # <<>>
    /\ \E now \in Mtimes :
       LET p == Append(root, Head(files))
           r == Copy2(src[p], dst, p, now)
           moved(kind) ==
               IF r.ok
               THEN /\ dst' = r.tree
                    /\ src' = [src EXCEPT ![p] = NoEntry]
                    /\ events' = Append(events, Event(kind, "file", p))
                    /\ files' = Tail(files)
                    /\ pc' = IF Tail(files) = <<>> THEN "A_walk" ELSE "A_body"
                    /\ UNCHANGED <<stack, root, dirs, dst0, quiet, mut, sync_interval, cancel, argv, debug, log_file_path>>
               ELSE Crash
       IN  IF ~Exists(dst, p)
           THEN moved("created")
           ELSE IF SourceIsNewer(GetMtime(src, p), GetMtime(dst, p))
                THEN moved("modified")
                ELSE /\ files' = Tail(files)
                     /\ pc' = IF Tail(files) = <<>> THEN "A_walk" ELSE "A_body"
                     /\ UNCHANGED <<src, dst, events, stack, root, dirs, dst0, quiet, mut, sync_interval, cancel, argv, debug, log_file_path>>

\* A file loop that first clears away a destination directory standing where
\* the source has a file.
SyncFileReplacing ==
    /\ pc = "A_body"
    /\ dirs = <<>>
    /\ files # <<>>
    /\ \E now \in Mtimes :
       LET p == Append(root, Head(files))
           cleared == IF IsDir(dst, p) THEN RmTree(dst, p, now).tree ELSE dst
           gone == IF IsDir(dst, p) THEN <<Event("removed", "dir", p)>> ELSE <<>>
           r == Copy2(src[p], cleared, p, now)
           copied(kind) ==
               IF r.ok
               THEN /\ dst' = r.tree
                    /\ events' = Append(events \o gone, Event(kind, "file", p))
                    /\ files' = Tail(files)
                    /\ pc' = IF Tail(files) = <<>> THEN "A_walk" ELSE "A_body"
                    /\ UNCHANGED <<src, stack, root, dirs, dst0, quiet, mut, sync_interval, cancel, argv, debug, log_file_path>>
               ELSE Crash
       IN  IF ~Exists(cleared, p)
           THEN copied("created")
           ELSE IF SourceIsNewer(GetMtime(src, p), GetMtime(dst, p))
                THEN copied("modified")
                ELSE /\ files' = Tail(files)
                     /\ pc' = IF Tail(files) = <<>> THEN "A_walk" ELSE "A_body"
                     /\ UNCHANGED <<src, dst, events, stack, root, dirs, dst0, quiet, mut, sync_interval, cancel, argv, debug, log_file_path>>

\* for file in files (lines 123-133)
SyncFile ==
    /\ pc = "A_body"
    /\ dirs = <<>>
    /\ files # <<>>
    /\ \E now \in Mtimes :
       LET p == Append(root, Head(files))
           r == Copy2(src[p], dst, p, now)
           copied(kind) ==
               IF r.ok
               THEN /\ dst' = r.tree
                    /\ events' = Append(events, Event(kind, "file", p))
                    /\ files' = Tail(files)
                    /\ pc' = IF Tail(files) = <<>> THEN "A_walk" ELSE "A_body"
                    /\ UNCHANGED <<src, stack, root, dirs, dst0, quiet, mut, sync_interval, cancel, argv, debug, log_file_path>>
               ELSE Crash
       IN  IF ~Exists(dst, p)
           THEN copied("created")
           ELSE IF SourceIsNewer(GetMtime(src, p), GetMtime(dst, p))
                THEN copied("modified")
                ELSE /\ files' = Tail(files)
                     /\ pc' = IF Tail(files) = <<>> THEN "A_walk" ELSE "A_body"
                     /\ UNCHANGED <<src, dst, events, stack, root, dirs, dst0, quiet, mut, sync_interval, cancel, argv, debug, log_file_path>>

\* A sync() that returns when the source walk is exhausted.
EndPhaseANoPrune ==
    /\ pc = "A_walk"
    /\ stack = <<>>
    /\ pc' = "done"
    /\ UNCHANGED <<src, dst, stack, root, dirs, files, events, dst0, quiet, mut, sync_interval, cancel, argv, debug, log_file_path>>

\* os.walk(src) is exhausted: os.walk(dest) is created.
EndPhaseA ==
    /\ pc = "A_walk"
    /\ stack = <<>>
    /\ pc' = "B_walk"
    /\ stack' = << <<>> >>
    /\ UNCHANGED <<src, dst, root, dirs, files, events, dst0, quiet, mut, sync_interval, cancel, argv, debug, log_file_path>>

\* for root, dirs, files in os.walk(dest)
WalkDst ==
    /\ pc = "B_walk"
    /\ WalkNode(dst, "B_body", "B_walk")
    /\ UNCHANGED <<src, dst, events, dst0, quiet, mut, sync_interval, cancel, argv, debug, log_file_path>>

\* for file in files (lines 138-144)
PruneFile ==
    /\ pc = "B_body"
    /\ files # <<>>
    /\ \E now \in Mtimes :
       LET p == Append(root, Head(files))
           r == Remove(dst, p, now)
       IN  IF ~HasSource(p)
           THEN IF r.ok
                THEN /\ dst' = r.tree
                     /\ events' = Append(events, Event("removed", "file", p))
                     /\ files' = Tail(files)
                     /\ pc' = IF Tail(files) = <<>> /\ dirs = <<>> THEN "B_walk" ELSE "B_body"
                     /\ UNCHANGED <<src, stack, root, dirs, dst0, quiet, mut, sync_interval, cancel, argv, debug, log_file_path>>
                ELSE Crash
           ELSE /\ files' = Tail(files)
                /\ pc' = IF Tail(files) = <<>> /\ dirs = <<>> THEN "B_walk" ELSE "B_body"
                /\ UNCHANGED <<src, dst, events, stack, root, dirs, dst0, quiet, mut, sync_interval, cancel, argv, debug, log_file_path>>

\* for dir in dirs (lines 147-154)
PruneDir ==
    /\ pc = "B_body"
    /\ files = <<>>
    /\ dirs # <<>>
    /\ \E now \in Mtimes :
       LET p == Append(root, Head(dirs))
           r == RmTree(dst, p, now)
       IN  IF ~HasSource(p)
           THEN IF r.ok
                THEN /\ dst' = r.tree
                     /\ events' = Append(events, Event("removed", "dir", p))
                     /\ dirs' = Tail(dirs)
                     /\ pc' = IF Tail(dirs) = <<>> THEN "B_walk" ELSE "B_body"
                     /\ UNCHANGED <<src, stack, root, files, dst0, quiet, mut, sync_interval, cancel, argv, debug, log_file_path>>
                ELSE Crash
           ELSE /\ dirs' = Tail(dirs)
                /\ pc' = IF Tail(dirs) = <<>> THEN "B_walk" ELSE "B_body"
                /\ UNCHANGED <<src, dst, events, stack, root, files, dst0, quiet, mut, sync_interval, cancel, argv, debug, log_file_path>>

\* os.walk(dest) is exhausted: sync() logs its duration and is about to return.
EndPhaseB ==
    /\ pc = "B_walk"
    /\ stack = <<>>
    /\ pc' = "done"
    /\ UNCHANGED <<src, dst, stack, root, dirs, files, events, dst0, quiet, mut, sync_interval, cancel, argv, debug, log_file_path>>

\* sync() returns and the loop calls time.sleep(sync_interval), which raises
\* ValueError for a negative interval.
Sleep ==
    /\ pc = "done"
    /\ IF sync_interval < 0
       THEN Crash
       ELSE /\ pc' = "sleep"
            /\ events' = <<>>
            /\ dst0' = dst
            /\ root' = <<>>
            /\ quiet' = TRUE
            /\ mut' = NoMut
            /\ UNCHANGED <<src, dst, stack, dirs, files, sync_interval, cancel, argv, debug, log_file_path>>

\* ------------------------------------------------------------- the environment
\* The two path words of the command line are the same word: source and
\* destination are one directory, and what is done to one is seen in the other.
SameRoots == Len(argv) >= 3 /\ argv[2] = argv[3]

\* While the loop sleeps after a pass, someone edits a source file: new content,
\* later modification time.
TouchSrc ==
    /\ pc = "sleep"
    /\ mut = NoMut
    /\ \E p \in EntriesOf(src), m \in Mtimes, c \in Contents :
          /\ IsFile(src, p)
          /\ m > src[p].mtime
          /\ c # src[p].content
          /\ src' = [src EXCEPT ![p] = FileEntry(m, c)]
          /\ dst' = IF SameRoots THEN [dst EXCEPT ![p] = FileEntry(m, c)] ELSE dst
          /\ mut' = [op |-> "touch", path |-> p]
    /\ quiet' = FALSE
    /\ UNCHANGED <<pc, stack, root, dirs, files, events, dst0, sync_interval, cancel, argv, debug, log_file_path>>

\* While the loop sleeps after a pass, someone removes a source file or a source
\* directory with everything below it.
RemoveSrc ==
    /\ pc = "sleep"
    /\ mut = NoMut
    /\ \E p \in EntriesOf(src), now \in Mtimes :
          /\ src' = [q \in Paths |-> IF IsPrefix(p, q) THEN NoEntry ELSE src[q]]
          /\ dst' = IF SameRoots
                    THEN [q \in Paths |->
                            IF IsPrefix(p, q) THEN NoEntry ELSE Stamp(dst, Parent(p), now)[q]]
                    ELSE dst
          /\ mut' = [op |-> IF IsFile(src, p) THEN "rmfile" ELSE "rmdir", path |-> p]
    /\ quiet' = FALSE
    /\ UNCHANGED <<pc, stack, root, dirs, files, events, dst0, sync_interval, cancel, argv, debug, log_file_path>>

Next ==
    \/ FirstPass
    \/ NextPass
    \/ WalkSrc
    \/ SyncDir
    \/ SyncFile
    \/ EndPhaseA
    \/ WalkDst
    \/ PruneFile
    \/ PruneDir
    \/ EndPhaseB
    \/ Sleep
    \/ TouchSrc
    \/ RemoveSrc

Spec == Init /\ [][Next]_vars

\* The steps of the program itself.  The interpreter runs the one thread until
\* the process ends, and time.sleep returns.
Program ==
    \/ FirstPass
    \/ NextPass
    \/ WalkSrc
    \/ SyncDir
    \/ SyncFile
    \/ EndPhaseA
    \/ WalkDst
    \/ PruneFile
    \/ PruneDir
    \/ EndPhaseB
    \/ Sleep

FairSpec == Init /\ [][Next]_vars /\ WF_vars(Program)

\* ------------------------------------------------------------- from the command line
\* The tree the runs from the command line synchronise: a directory with one
\* file in it.
ArgSrcTree ==
    [p \in Paths |->
        IF p = <<>> \/ p = <<"a">> THEN DirEntry(0)
        ELSE IF p = <<"a", "b">> THEN FileEntry(1, 1)
        ELSE NoEntry]

\* The tree as the destination walk reads it, the modification time of its
\* directories being m.
AsDestination(tree, m) ==
    [p \in Paths |-> IF p # <<>> /\ IsDir(tree, p) THEN DirEntry(m) ELSE tree[p]]

\* The process has been started with some argument vector.  Its two path words
\* name existing directories: two different words the source tree and an empty
\* destination directory, one word twice the source tree as both.
ArgInit ==
    /\ src = ArgSrcTree
    /\ argv \in Argvs
    /\ IF SameRoots
       THEN \E m \in Mtimes : dst = AsDestination(src, m)
       ELSE dst = EmptyTree
    /\ pc = "parse"
    /\ stack = <<>>
    /\ root = <<>>
    /\ dirs = <<>>
    /\ files = <<>>
    /\ events = <<>>
    /\ dst0 = dst
    /\ quiet = FALSE
    /\ mut = NoMut
    /\ sync_interval = 0
    /\ cancel = FALSE
    /\ debug = FALSE
    /\ log_file_path = ""

\* Line 164: parse_args either ends the process with sys.exit(1) or returns the
\* interval, the log file and the debug flag.
ParseArgs ==
    /\ pc = "parse"
    /\ LET r == parse_args(argv) IN
       IF r.ok
       THEN /\ pc' = "setup"
            /\ sync_interval' = r.sync_interval
            /\ debug' = r.debug
            /\ log_file_path' = r.log_file_path
       ELSE /\ pc' = "exit1"
            /\ UNCHANGED <<sync_interval, debug, log_file_path>>
    /\ UNCHANGED <<src, dst, stack, root, dirs, files, events, dst0, quiet, mut, cancel, argv>>

\* The log file's path is that of the source or of the destination directory.
LogFileIsDirectory == log_file_path \in {argv[2], argv[3]}

\* Line 167: setup_logger opens the log file for writing (lines 89-92), which
\* raises IsADirectoryError when the path is a directory; otherwise the loop is
\* reached.
SetupLogger ==
    /\ pc = "setup"
    /\ pc' = IF LogFileIsDirectory THEN "crashed" ELSE "start"
    /\ UNCHANGED <<src, dst, stack, root, dirs, files, events, dst0, quiet, mut, sync_interval, cancel, argv, debug, log_file_path>>

ArgNext == ParseArgs \/ SetupLogger \/ Next

ArgSpec == ArgInit /\ [][ArgNext]_vars

\* ------------------------------------------------------------- a signal
\* What an interrupted os.makedirs(p) may leave besides the tree as it was:
\* the missing directories made from the top down to some point, at most to p
\* itself (the signal is then handled as the last mkdir returns).
InterruptedMakeDirs(tree, p, now) ==
    IF ~MakeDirs(tree, p, now).ok THEN {}
    ELSE {MakeDirs(tree, q, now).tree :
             q \in {q \in Paths : IsPrefix(q, p) /\ ~Exists(tree, q)}}

\* What an interrupted shutil.copy2 of `entry` to p may leave besides the tree
\* as it was: the file at its target truncated (content 0), or written but not
\* yet given the source's modification time, or complete (copystat is done and
\* copy2 has not returned).
InterruptedCopy2(entry, tree, p, now) ==
    LET t == Copy2Target(tree, p) IN
    IF ~Copy2(entry, tree, p, now).ok
    THEN {}
    ELSE {[IF Exists(tree, t) THEN tree ELSE Stamp(tree, Parent(t), now)
              EXCEPT ![t] = FileEntry(now, c)] : c \in {0, entry.content}}
         \union {Copy2(entry, tree, p, now).tree}

\* What an interrupted os.remove(p) may leave besides the tree as it was: the
\* file removed.
InterruptedRemove(tree, p, now) ==
    IF Remove(tree, p, now).ok THEN {Remove(tree, p, now).tree} ELSE {}

\* What is below p in the tree.
Below(tree, p) == {q \in Paths : IsStrictPrefix(p, q) /\ Exists(tree, q)}

\* The directories at or below p that are still there with entries of theirs in
\* S removed.
InProgress(tree, p, S) ==
    {q \in Below(tree, p) \union {p} : q \notin S /\ \E r \in S : Parent(r) = q}

\* What shutil.rmtree(p) may have removed when it is cut short: entries below
\* p, each removed directory with everything below it; rmtree empties one
\* directory at a time, going down, so the directories that have lost entries
\* lie on one path.
RmTreeCuts(tree, p) ==
    {S \in SUBSET Below(tree, p) :
        /\ \A q \in S : \A r \in Below(tree, p) : IsPrefix(q, r) => r \in S
        /\ \A q, r \in InProgress(tree, p, S) : IsPrefix(q, r) \/ IsPrefix(r, q)}

\* The tree without the entries in S, their directories stamped.
CutTree(tree, S, now) ==
    [q \in Paths |->
        IF q \in S THEN NoEntry
        ELSE IF IsDir(tree, q) /\ q # <<>> /\ \E r \in S : Parent(r) = q
             THEN DirEntry(now)
             ELSE tree[q]]

\* What an interrupted shutil.rmtree(p) may leave besides the tree as it was:
\* some of what is below p removed and p still there, or p removed as well
\* (rmtree has not returned).
InterruptedRmTree(tree, p, now) ==
    IF ~IsDir(tree, p) THEN {}
    ELSE {CutTree(tree, S, now) : S \in RmTreeCuts(tree, p)}
         \union {RmTree(tree, p, now).tree}

\* What shutil.rmtree(p) leaves when the signal comes between os.close(fd) and
\* fd_closed = True (shutil.py 662-663, 734-735) for some directory D at or
\* below p: the finally clause closes the descriptor again, and the OSError of
\* that takes the place of the KeyboardInterrupt.  D has been emptied and is
\* still there.
BadCloseRmTree(tree, p, now) ==
    IF ~IsDir(tree, p) THEN {}
    ELSE {CutTree(tree, S, now) :
             S \in {S \in RmTreeCuts(tree, p) :
                      \E D \in Below(tree, p) \union {p} :
                          /\ IsDir(tree, D) /\ D \notin S
                          /\ \A r \in Below(tree, p) : Parent(r) = D => r \in S
                          /\ \A q \in InProgress(tree, p, S) : IsPrefix(q, D)}}

\* The states of the destination that ending the process now may leave: as it
\* is, or with the makedirs, the copy or the removal that the loop is at cut
\* short or done, its event not yet logged.
MayLeave ==
    LET d == Append(root, Head(dirs))
        f == Append(root, Head(files))
    IN  {dst} \union
        UNION {CASE pc = "A_body" /\ dirs # <<>> ->
                        IF ~Exists(dst, d) THEN InterruptedMakeDirs(dst, d, now) ELSE {}
                 [] pc = "A_body" /\ dirs = <<>> /\ files # <<>> ->
                        IF ~Exists(dst, f) \/ SourceIsNewer(GetMtime(src, f), GetMtime(dst, f))
                        THEN InterruptedCopy2(src[f], dst, f, now)
                        ELSE {}
                 [] pc = "B_body" /\ files # <<>> ->
                        IF ~HasSource(f) THEN InterruptedRemove(dst, f, now) ELSE {}
                 [] pc = "B_body" /\ files = <<>> /\ dirs # <<>> ->
                        IF ~HasSource(d) THEN InterruptedRmTree(dst, d, now) ELSE {}
                 [] OTHER -> {} : now \in Mtimes}

\* From index i on, the loop of parse_args comes to the int() of line 55.
RECURSIVE CallsInt(_, _)
CallsInt(av, i) ==
    /\ i <= Len(av)
    /\ CASE av[i] = "-i" -> i + 1 <= Len(av)
         [] av[i] = "-l" -> i + 1 <= Len(av) /\ CallsInt(av, i + 2)
         [] av[i] = "-d" -> CallsInt(av, i + 1)
         [] OTHER -> FALSE

\* How the process may end when SIGINT raises KeyboardInterrupt where it is.
\* Nothing in lines 161-173 or in sync() catches it: the process ends there
\* ("killed"), in the wait or in the middle of a pass.  Two places turn it into
\* another ending: the bare except of line 57, around int(), ends the process
\* with sys.exit(1); and shutil.rmtree may raise OSError in its place.
Endings ==
    {[pc |-> "killed", dst |-> t] : t \in MayLeave}
    \union (IF pc = "parse" /\ Len(argv) >= 3 /\ CallsInt(argv, 4)
            THEN {[pc |-> "exit1", dst |-> dst]}
            ELSE {})
    \union (IF pc = "B_body" /\ files = <<>> /\ dirs # <<>> /\ ~HasSource(Append(root, Head(dirs)))
            THEN {[pc |-> "crashed", dst |-> t] :
                     t \in UNION {BadCloseRmTree(dst, Append(root, Head(dirs)), now) : now \in Mtimes}}
            ELSE {})

\* The process is sent SIGINT (or SIGTERM, which ends it at once: "killed").
\* The program installs no handler.
Cancel ==
    /\ ~cancel
    /\ pc \notin {"crashed", "exit1", "killed"}
    /\ cancel' = TRUE
    /\ \E e \in Endings : pc' = e.pc /\ dst' = e.dst
    /\ UNCHANGED <<src, stack, root, dirs, files, events, dst0, quiet, mut, sync_interval, argv, debug, log_file_path>>

\* The process has been started, on the trees and with the argument vectors
\* the runs of the synchronisation start from.
CancelInit ==
    /\ src \in SrcTrees
    /\ dst \in DstTrees
    /\ pc = "parse"
    /\ stack = <<>>
    /\ root = <<>>
    /\ dirs = <<>>
    /\ files = <<>>
    /\ events = <<>>
    /\ dst0 = dst
    /\ quiet = FALSE
    /\ mut = NoMut
    /\ sync_interval = 0
    /\ cancel = FALSE
    /\ argv \in StartArgvs
    /\ debug = FALSE
    /\ log_file_path = ""

CancelNext == Cancel \/ ParseArgs \/ SetupLogger \/ Next

CancelSpec == CancelInit /\ [][CancelNext]_vars /\ WF_vars(Program)

TypeOK ==
    /\ pc \in {"parse", "setup", "exit1", "killed", "start", "A_walk", "A_body", "B_walk", "B_body", "done",
             "sleep", "crashed"}
    /\ WellFormed(src)
    /\ WellFormed(dst)

\* ------------------------------------------------------------- properties
InPass == pc \in {"A_walk", "A_body", "B_walk", "B_body", "done"}

\* The events of the current pass that name path p.
EventsAt(p) == {i \in 1..Len(events) : events[i].path = p}

\* Same relative paths and kinds (the root itself is not an entry).
SameKinds(s, d) == \A p \in Paths : p # <<>> => s[p].kind = d[p].kind

\* Same file contents.
SameContents(s, d) == \A p \in Paths : IsFile(s, p) => d[p].content = s[p].content

\* Some relative path is a file in one tree and a directory in the other.
KindConflict(s, d) ==
    \E p \in Paths : p # <<>> /\ Exists(s, p) /\ Exists(d, p) /\ s[p].kind # d[p].kind

\* C1 (mirror property): a pass that started with an existing, empty destination
\* directory and an existing source root, and ran to its end, leaves the
\* destination equal to the source in relative paths, kinds and file contents.
C1_Mirror ==
    (pc = "done" /\ dst0 = EmptyTree /\ IsDir(src, <<>>))
        => (SameKinds(src, dst) /\ SameContents(src, dst))

\* A pass from an empty destination has mirrored a source that holds a
\* directory with a file in it.
C1_Witness ==
    /\ pc = "done"
    /\ dst0 = EmptyTree
    /\ \E p \in Paths : Len(p) = 2 /\ IsFile(src, p) /\ dst[p] = src[p]
    /\ SameKinds(src, dst)

\* C2 as stated: after any pass that ran to its end, whatever the destination
\* held before, source and destination have the same relative paths and kinds.
C2_AnyDestination == pc = "done" => SameKinds(src, dst)

\* C2 (post-pass invariant), amended: the same, for the passes that started
\* with no relative path being a file on one side and a directory on the other.
C2_PostPass == (pc = "done" /\ ~KindConflict(src, dst0)) => SameKinds(src, dst)

\* A pass has both added an entry the destination lacked and removed one the
\* source lacks.
C2_Witness ==
    /\ pc = "done"
    /\ ~KindConflict(src, dst0)
    /\ \E p \in Paths : Exists(src, p) /\ ~Exists(dst0, p) /\ p # <<>>
    /\ \E p \in Paths : ~Exists(src, p) /\ Exists(dst0, p) /\ p # <<>>
    /\ SameKinds(src, dst)

\* C3 as stated: a pass that follows a completed pass, with nothing changed in
\* between, emits no event and leaves the destination as it was.
C3_SecondPassSilent == (InPass /\ quiet) => (events = <<>> /\ dst = dst0)

\* C3 (idempotence), amended: the same, when no relative path is a file in the
\* source and a directory in the destination.
C3_Idempotent ==
    (InPass /\ quiet /\ ~(\E p \in Paths : IsFile(src, p) /\ IsDir(dst0, p)))
        => (events = <<>> /\ dst = dst0)

\* A second pass has run to its end over a source with a directory, which the
\* destination already had, and a file, and did nothing.
C3_Witness ==
    /\ pc = "done"
    /\ quiet
    /\ \E p \in Paths : p # <<>> /\ IsDir(src, p) /\ IsDir(dst, p)
    /\ \E p \in Paths : IsFile(src, p) /\ IsFile(dst, p)
    /\ events = <<>>
    /\ dst = dst0

\* C4: a pass that starts while the source root is missing changes nothing in
\* the destination and does not end the process.
C4_MissingSourceAborts ==
    (InPass /\ ~IsDir(src, <<>>)) => (dst = dst0 /\ events = <<>>)

\* The staleness test lets the destination win on a tie or when it is newer.
NotStale(p) == IsFile(dst0, p) /\ IsFile(src, p) /\ dst0[p].mtime >= src[p].mtime

\* C5 (non-regression): a destination file whose modification time is equal to
\* or greater than that of the source file at the same relative path is left as
\* it is by the pass, and no event names it.
C5_NonRegression ==
    \A p \in Paths : NotStale(p) => (dst[p] = dst0[p] /\ EventsAt(p) = {})

\* A pass has run to its end and kept a destination file as old as the source
\* file and of other content, and one newer than the source file.
C5_Witness ==
    /\ pc = "done"
    /\ \E p \in Paths :
          /\ NotStale(p)
          /\ dst0[p].mtime = src[p].mtime
          /\ dst0[p].content # src[p].content
          /\ dst[p] = dst0[p]
    /\ \E p \in Paths :
          /\ NotStale(p)
          /\ dst0[p].mtime > src[p].mtime
          /\ dst0[p].content # src[p].content
          /\ dst[p] = dst0[p]

\* C6 as stated: the pass that follows a completed pass and an edit of source
\* file p (content changed, modification time advanced) has, at its end, made
\* the destination entry at p equal to the source file, with exactly one event
\* for p, a "modified file".
C6_TouchedIsCopied ==
    (pc = "done" /\ mut.op = "touch")
        => /\ dst[mut.path] = src[mut.path]
           /\ Cardinality(EventsAt(mut.path)) = 1
           /\ \A i \in EventsAt(mut.path) : events[i] = Event("modified", "file", mut.path)

\* C6 (update propagation), amended: the same, when the destination holds a
\* file at p whose modification time is less than the advanced one.
C6_UpdatePropagation ==
    (/\ pc = "done"
     /\ mut.op = "touch"
     /\ IsFile(dst0, mut.path)
     /\ dst0[mut.path].mtime < src[mut.path].mtime)
        => /\ dst[mut.path] = src[mut.path]
           /\ Cardinality(EventsAt(mut.path)) = 1
           /\ \A i \in EventsAt(mut.path) : events[i] = Event("modified", "file", mut.path)

\* The pass after an edit has replaced the older destination file, whose
\* content differed.
C6_Witness ==
    /\ pc = "done"
    /\ mut.op = "touch"
    /\ IsFile(dst0, mut.path)
    /\ dst0[mut.path].mtime < src[mut.path].mtime
    /\ dst0[mut.path].content # src[mut.path].content
    /\ dst[mut.path] = src[mut.path]

\* The prune phase is at a file of the listed destination directory.
AtPruneFile == pc = "B_body" /\ files # <<>>
\* The prune phase is at a subdirectory of the listed destination directory.
AtPruneDir == pc = "B_body" /\ files = <<>> /\ dirs # <<>>

RemovedFileEvents(p) == {i \in EventsAt(p) : events[i] = Event("removed", "file", p)}
RemovedDirEvents(p) == {i \in EventsAt(p) : events[i] = Event("removed", "dir", p)}

\* C7 as stated: a destination file the prune phase visits is deleted, with a
\* "removed file" event, when the source has no file at its relative path, and
\* is kept when the source has one.
C7_PruneByFile ==
    [][AtPruneFile =>
          LET p == Append(root, Head(files)) IN
          IF ~IsFile(src, p)
          THEN ~Exists(dst', p) /\ events' = Append(events, Event("removed", "file", p))
          ELSE dst'[p] = dst[p] /\ events' = events]_vars

\* C7 (file deletion propagation), amended: a destination file the prune phase
\* visits is deleted, with one "removed file" event, when the source has no
\* entry (file or directory) at its relative path, and is kept, with no
\* event, when the source has one; no path gets two such events in a pass.
C7_FileDeletion ==
    /\ [][AtPruneFile =>
             LET p == Append(root, Head(files)) IN
             IF ~Exists(src, p)
             THEN ~Exists(dst', p) /\ events' = Append(events, Event("removed", "file", p))
             ELSE dst' = dst /\ events' = events]_vars
    /\ [](\A p \in Paths : Cardinality(RemovedFileEvents(p)) <= 1)

\* A pass has deleted one destination file that had no source entry and kept
\* one that had a source file.
C7_Witness ==
    /\ pc = "done"
    /\ \E p \in Paths :
          IsFile(dst0, p) /\ ~Exists(src, p) /\ ~Exists(dst, p) /\ RemovedFileEvents(p) # {}
    /\ \E p \in Paths : IsFile(dst0, p) /\ IsFile(src, p) /\ IsFile(dst, p)

\* C8 as stated: a destination directory the prune phase visits is removed with
\* everything below it, with a "removed directory" event, when the source has no
\* directory at its relative path.
C8_PruneByDirectory ==
    [][AtPruneDir =>
          LET p == Append(root, Head(dirs)) IN
          ~IsDir(src, p) =>
              /\ \A q \in Paths : IsPrefix(p, q) => ~Exists(dst', q)
              /\ events' = Append(events, Event("removed", "dir", p))]_vars

\* C8 (directory deletion propagation), amended: a destination directory the
\* prune phase visits is removed with everything below it in one step, with one
\* "removed directory" event, when the source has no entry (directory or file)
\* at its relative path, and is kept otherwise; no other event of the pass names
\* the removed root or a path below it, the walk never lists a directory below
\* it, and coming to a directory that is gone does not end the process.
C8_DirectoryDeletion ==
    /\ [][AtPruneDir =>
             LET p == Append(root, Head(dirs)) IN
             IF ~Exists(src, p)
             THEN /\ \A q \in Paths : IsPrefix(p, q) => ~Exists(dst', q)
                  /\ events' = Append(events, Event("removed", "dir", p))
                  /\ pc' # "crashed"
             ELSE dst' = dst /\ events' = events]_vars
    /\ [][pc = "B_walk" => pc' # "crashed"]_vars
    /\ [](\A i \in 1..Len(events) :
             (events[i].kind = "removed" /\ events[i].type = "dir") =>
                 /\ \A j \in 1..Len(events) : j # i => ~IsPrefix(events[i].path, events[j].path)
                 /\ pc = "B_body" => ~IsPrefix(events[i].path, root))

\* A pass has removed a destination directory together with an entry below it,
\* and has walked on to the end.
C8_Witness ==
    /\ pc = "done"
    /\ \E p \in Paths :
          /\ IsDir(dst0, p)
          /\ RemovedDirEvents(p) # {}
          /\ \E q \in Paths : IsStrictPrefix(p, q) /\ Exists(dst0, q)
          /\ \A q \in Paths : IsPrefix(p, q) => ~Exists(dst, q)

\* C9: a failed copy, delete or directory creation does not end the process
\* with entries of the listed directory still to be handled: the entry is
\* skipped and the loop goes on.
C9_EntryErrorIsolated == ~(pc = "crashed" /\ (dirs # <<>> \/ files # <<>>))

\* A pass has just been started: os.walk(src) has not listed the root yet.
PassStarted == pc = "A_walk" /\ stack = << <<>> >>
InPhaseA == pc \in {"A_walk", "A_body"}
InPhaseB == pc \in {"B_walk", "B_body"}

\* C10 (scheduler sequencing): a pass starts only at the start of the loop or
\* out of the wait, and only when no pass is in progress; the prune phase
\* starts only when the source walk is exhausted; the pass ends only when the
\* destination walk is exhausted; the wait starts only at the end of a pass; and
\* unless the process has ended with an error, a pass is started again and
\* again.
C10_Sequencing ==
    /\ [][/\ PassStarted' => (pc \in {"start", "sleep"} /\ ~InPass)
          /\ (InPhaseA' /\ ~InPhaseA) => PassStarted'
          /\ (InPhaseB' /\ ~InPhaseB) => (pc = "A_walk" /\ stack = <<>>)
          /\ (pc' = "done") => (pc = "B_walk" /\ stack = <<>>)
          /\ (pc' = "sleep" /\ pc # "sleep") => pc = "done"]_vars
    /\ (<>(pc = "crashed") \/ []<>PassStarted)

\* A pass is started out of the wait that followed a completed pass.
C10_Witness == PassStarted /\ quiet

\* C11 (cooperative cancellation): once the process has been signalled to stop
\* no new pass starts, and a pass that is in progress when the signal comes is
\* not cut short: the step goes on within the pass.
C11_CooperativeCancellation ==
    [][/\ cancel => ~PassStarted'
       /\ (cancel' /\ (InPhaseA \/ InPhaseB)) => InPass']_vars

\* The word names an integer that is not negative.
NonNegativeInteger(s) == IntOf(s).ok /\ IntOf(s).value >= 0

\* From index i on, reading options left to right, each -i and -l with the word
\* after it as its value: option o is given.
RECURSIVE OptionGiven(_, _, _)
OptionGiven(av, i, o) ==
    /\ i <= Len(av)
    /\ \/ av[i] = o
       \/ OptionGiven(av, IF av[i] \in {"-i", "-l"} THEN i + 2 ELSE i + 1, o)

\* From index i on there is an unknown option, an -i or -l without a value, or
\* an -i whose value is not a non-negative integer.
RECURSIVE OptionError(_, _)
OptionError(av, i) ==
    /\ i <= Len(av)
    /\ CASE av[i] = "-i" ->
               \/ i + 1 > Len(av)
               \/ ~NonNegativeInteger(av[i + 1])
               \/ OptionError(av, i + 2)
         [] av[i] = "-l" -> i + 1 > Len(av) \/ OptionError(av, i + 2)
         [] av[i] = "-d" -> OptionError(av, i + 1)
         [] OTHER -> TRUE

\* The argument vector lacks one of the two paths or has an option error.
ArgumentError(av) == Len(av) < 3 \/ OptionError(av, 4)

\* C12 (startup argument errors): with an argument vector that has an argument
\* error the process never starts a pass and never reaches the wait; every other
\* one is
\* parsed, with the interval 10 when -i is not given and debug off when -d is
\* not given.
C12_ArgumentErrors ==
    [][IF ArgumentError(argv)
       THEN ~PassStarted' /\ pc' # "sleep"
       ELSE /\ pc' # "exit1"
            /\ pc' # "parse" =>
                 /\ ~OptionGiven(argv, 4, "-i") => sync_interval' = DefaultInterval
                 /\ ~OptionGiven(argv, 4, "-d") => debug' = FALSE]_vars

\* The step adds an entry to the destination or changes a destination file.
Writes == \E p \in Paths : Exists(dst', p) /\ (dst'[p].kind # dst[p].kind \/ (IsFile(dst, p) /\ dst'[p] # dst[p]))
\* The step takes an entry out of the destination.
Removes == \E p \in Paths : Exists(dst, p) /\ ~Exists(dst', p)

\* C13 (phase ordering): within a pass the destination gets new and overwritten
\* entries only in the source walk and loses entries only in the destination
\* walk, which comes after it; in the events of a pass no "removed" is followed
\* by a "created" or "modified".
C13_PhaseOrdering ==
    [][/\ Writes => (pc = "A_body" /\ ~Removes)
       /\ Removes => (pc = "B_body" /\ ~Writes)
       /\ \A i, j \in 1..Len(events') :
             (i < j /\ events'[i].kind = "removed") => events'[j].kind = "removed"]_vars

\* A pass has run to its end that created or overwritten something and then
\* removed something.
C13_Witness ==
    /\ pc = "done"
    /\ \E i, j \in 1..Len(events) :
          i < j /\ events[i].kind \in {"created", "modified"} /\ events[j].kind = "removed"

\* The source walk is about to copy a file of the directory it listed.
AtSyncFile == pc = "A_body" /\ dirs = <<>> /\ files # <<>>

\* C14 (top-down creation including the root): in a pass over an existing source
\* root that began without a destination root, every file is copied into a
\* destination directory that exists by then, and once the source walk is over
\* the destination root exists.
C14_RootCreated ==
    (IsDir(src, <<>>) /\ ~Exists(dst0, <<>>)) =>
        /\ AtSyncFile => IsDir(dst, root)
        /\ pc \in {"B_walk", "B_body", "done"} => IsDir(dst, <<>>)

\* C15 (self-healing under the loop): the changes from outside come to an end
\* (files are edited to later times and entries removed, finitely often), and
\* the repeated passes bring the destination to the source's relative paths and
\* kinds for good, with no event in any pass from then on.
C15_SelfHealing == <>[](SameKinds(src, dst) /\ (pc = "done" => events = <<>>))

\* The destination entry at q is as it was when the pass began: the source walk
\* has neither created nor overwritten it.
Untouched(q) == IF IsFile(dst, q) THEN dst[q] = dst0[q] ELSE IsDir(dst0, q)

\* What the step removes from the destination has no entry in the source and
\* was not written by the source walk of this pass.
RemovesOnlyStale ==
    \A q \in Paths : (Exists(dst, q) /\ ~Exists(dst', q)) => (~Exists(src, q) /\ Untouched(q))

\* No relative path is a file in the source and was a directory in the
\* destination when the pass began.
NoFileOverDir == ~\E p \in Paths : IsFile(src, p) /\ IsDir(dst0, p)

\* C16 as stated: the prune phase removes no destination entry that has a source
\* entry at its relative path, and nothing the source walk of the same pass
\* created or overwrote.
C16_NothingWrittenIsRemoved == [][RemovesOnlyStale]_vars

\* C16 (deletion safety): no step removes a destination entry that has a source
\* entry at its relative path; and in a pass that began with no destination
\* directory where the source has a file, no step removes an entry that the
\* source walk of the pass created or overwrote.
C16_DeletionSafety ==
    [][\A q \in Paths :
          (Exists(dst, q) /\ ~Exists(dst', q)) =>
              (~Exists(src, q) /\ (NoFileOverDir => Untouched(q)))]_vars

\* A pass that began with no such directory has created or overwritten entries,
\* all still there, and has removed others.
C16_Witness ==
    /\ pc = "done"
    /\ NoFileOverDir
    /\ \E i \in 1..Len(events) : events[i].kind = "removed"
    /\ \E i \in 1..Len(events) : events[i].kind # "removed"
    /\ \A i \in 1..Len(events) :
          events[i].kind # "removed" => dst[events[i].path].kind = src[events[i].path].kind

\* C17 (source is read-only): no step of a pass, from its start to its return,
\* changes any entry of the source tree (existence, kind, modification time or
\* content); the two trees are apart, and the source changes only from outside
\* while the loop waits.
C17_SourceReadOnly ==
    [][/\ (InPass \/ PassStarted') => src' = src
       /\ src' # src => (pc = "sleep" /\ pc' = "sleep" /\ mut' # NoMut)]_vars

\* A pass has copied a source file, which is still in the source as it was
\* copied, and has removed a destination directory.
C17_Witness ==
    /\ pc = "done"
    /\ \E i \in 1..Len(events) :
          /\ events[i].kind = "created" /\ events[i].type = "file"
          /\ IsFile(src, events[i].path)
          /\ dst[events[i].path] = src[events[i].path]
    /\ \E j \in 1..Len(events) : events[j].kind = "removed" /\ events[j].type = "dir"

\* Every source file has a destination file at its relative path that is not
\* older, and every file the pass created or overwrote (by the tree and by the
\* events) is the source file as it is: same modification time, same content.
Fresh ==
    /\ \A p \in Paths : IsFile(src, p) => (IsFile(dst, p) /\ dst[p].mtime >= src[p].mtime)
    /\ \A p \in Paths : (IsFile(dst, p) /\ dst[p] # dst0[p]) => dst[p] = src[p]
    /\ \A i \in 1..Len(events) :
          (events[i].kind # "removed" /\ events[i].type = "file")
              => dst[events[i].path] = src[events[i].path]

\* C18 as stated: after any pass that ran to its end the destination is fresh.
C18_AlwaysFresh == pc = "done" => Fresh

\* C18 (post-pass freshness): after a pass that ran to its end and began with no
\* destination directory where the source has a file, the destination is fresh.
C18_Freshness == (pc = "done" /\ NoFileOverDir) => Fresh

\* Such a pass has created a file and overwritten an older one.
C18_Witness ==
    /\ pc = "done"
    /\ NoFileOverDir
    /\ \E i \in 1..Len(events) : events[i].kind = "created" /\ events[i].type = "file"
    /\ \E p \in Paths : IsFile(src, p) /\ IsFile(dst0, p) /\ dst0[p].mtime < src[p].mtime
    /\ Fresh

====
